---- MODULE Spec2Model ----
(***************************************************************************)
(* A model of convertDatToVtk.py: the LineReader, the Zone and Timestep    *)
(* parsers, the conversion to VTKPolyData, the file writer and the         *)
(* converter script's main loop.                                           *)
(*                                                                         *)
(* The input file is not fixed in advance: every physical read of the     *)
(* LineReader draws the next raw lines of the file (some blank lines and   *)
(* then a non-blank line or the end of the stream) from a small alphabet,  *)
(* so a behaviour of the model is a run of the script over one file.       *)
(***************************************************************************)
EXTENDS Integers, Sequences, FiniteSets, TLC

(***************************************************************************)
(* Bounds of the model.                                                    *)
(***************************************************************************)
MaxLines == 7         \* non-blank lines of the input file (main loop)
MaxBlank == 1         \* blank lines in front of a non-blank line
MaxEosRows == 2       \* rows the model lets a zone append after end of stream
ReaderMaxLines == 3   \* non-blank lines of the file in the LineReader harness
MaxCalls == 5         \* getNextNotEmptyLine calls in the LineReader harness

CRACK_FILETYPE == "c"
DAMAGE_FILETYPE == "d"
VON_MISES_FILETYPE == "v"

Range(s) == {s[n] : n \in 1..Len(s)}
Last(s) == s[Len(s)]

(***************************************************************************)
(* Lines.  A line is a record; kind says which shape of text it is, the    *)
(* other fields hold the parts the regular expressions capture.            *)
(*   text   the characters of a title (of the file or of a zone)           *)
(*   names  the quoted names of a VARIABLES line                           *)
(*   st, I, J  SOLUTIONTIME, I and J of a zone header                      *)
(*   iter   the Iter of a timestep's last line                             *)
(*   canon  TRUE when that last line is spelled "Load factor ...", FALSE    *)
(*          when it differs in letter case (e.g. "LOAD FACTOR ...")        *)
(*   toks   the whitespace-separated tokens of a data line                 *)
(***************************************************************************)
Line(kind) ==
  [kind |-> kind, text |-> <<>>, names |-> <<>>, st |-> 0, I |-> 0, J |-> 0,
   iter |-> 0, canon |-> TRUE, toks |-> <<>>]

EOS == Line("eos")        \* '' : what readline returns at the end of the stream
Blank == Line("blank")    \* a line of white space only

TitleLine(t) == [Line("title") EXCEPT !.text = t]
VariablesLine(ns) == [Line("variables") EXCEPT !.names = ns]
ZoneFullLine(st, I, J) == [Line("zoneFull") EXCEPT !.text = <<"Z">>, !.st = st, !.I = I, !.J = J]
ZonePartialLine(st) == [Line("zonePartial") EXCEPT !.text = <<"Z">>, !.st = st]
ZoneBadLine == Line("zoneBad")    \* starts with ZONE, matches no header pattern
TrailerLine(it, canon) == [Line("trailer") EXCEPT !.iter = it, !.canon = canon]
EofMarkLine == Line("eofMark")    \* "## ##"
DataLine(toks) == [Line("data") EXCEPT !.toks = toks]

D1 == DataLine(<<"0.0", "0.0", "1.5", "1.0", "0.0", "2.5">>)
D4 == DataLine(<<"0", "0.0", "2.5">>)
D5 == DataLine(<<"1.5">>)

Alphabet ==
  { TitleLine(<<"T", "1">>), TitleLine(<<"T", " ", "1">>),
    VariablesLine(<<"X", "Y", "S">>),
    ZoneFullLine(3, 1, 2), ZoneFullLine(3, 2, 1), ZonePartialLine(3),
    ZonePartialLine(5), ZoneBadLine,
    TrailerLine(3, TRUE), TrailerLine(5, FALSE),
    EofMarkLine, D1, D4, D5 }

ReaderAlphabet == { TitleLine(<<"T", "1">>), TrailerLine(3, FALSE), EofMarkLine, D5 }

(***************************************************************************)
(* The regular expressions, as predicates on the stripped line.            *)
(***************************************************************************)
NumericToken(t) == t \in {"0.0", "0", "1.0", "1.5", "2.5"}

CRACK_INITIAL_NUMBER_REGEXP(l, ignoreCase) ==
  l.kind = "data" /\ Len(l.toks) = 1 /\ NumericToken(l.toks[1])
END_OF_FILE_REGEXP(l, ignoreCase) == l.kind = "eofMark"
TIMESTEP_LAST_LINE_REGEXP(l, ignoreCase) == l.kind = "trailer" /\ (ignoreCase \/ l.canon)
TITLE_REGEXP(l, ignoreCase) == l.kind = "title"
VARIABLES_REGEXP(l, ignoreCase) == l.kind = "variables"
ZONE_REGEXP(l, ignoreCase) == l.kind \in {"zoneFull", "zonePartial", "zoneBad"}
ZONE_FULL_HEADER_REGEXP(l, ignoreCase) == l.kind = "zoneFull"
ZONE_PARTIAL_HEADER_REGEXP(l, ignoreCase) == l.kind = "zonePartial"

(***************************************************************************)
(* LineReader.  The reader is [latestLine, pushedBack] with the state of   *)
(* the file under it: eos (readline has returned '') and nread (the        *)
(* non-blank lines readline has returned).                                 *)
(***************************************************************************)
NewLineReader ==
  [latestLine |-> EOS, pushedBack |-> FALSE, eos |-> FALSE, nread |-> 0]

\* not line.strip()
IsBlank(l) == l.kind \in {"blank", "eos"}

\* The raw lines the next readline calls can return: blank lines, then a
\* non-blank line or the end of the stream.  A file of at most max non-blank
\* lines; after its end readline keeps returning ''.
Blanks(n) == [m \in 1..n |-> Blank]
Chunks(r, alphabet, max, blanks) ==
  { Blanks(n) \o <<l>> :
      n \in blanks,
      l \in (IF r.eos \/ r.nread >= max THEN {} ELSE alphabet) \cup {EOS} }

\* while not result.strip(): result = readline(); if not result: break
RECURSIVE ReadLoop(_, _)
ReadLoop(chunk, n) ==
  IF chunk[n] = EOS THEN EOS
  ELSE IF IsBlank(chunk[n]) THEN ReadLoop(chunk, n + 1)
  ELSE chunk[n]

NextLine_IgnorePushBack(r, peeking, chunk) ==
  LET line == ReadLoop(chunk, 1)
  IN [result |-> line,
      read |-> TRUE,
      lr |-> [latestLine |-> line, pushedBack |-> peeking,
              eos |-> r.eos \/ line = EOS,
              nread |-> IF line # EOS THEN r.nread + 1 ELSE r.nread]]

\* LineReader.__nextLine: the line returned, whether the file was read, and
\* the reader afterwards.
NextLine(r, peeking, chunk) ==
  LET fromFile == ~r.pushedBack
      line == IF r.pushedBack THEN r.latestLine ELSE ReadLoop(chunk, 1)
  IN [result |-> line,
      read |-> fromFile,
      lr |-> [latestLine |-> line, pushedBack |-> peeking,
              eos |-> r.eos \/ (fromFile /\ line = EOS),
              nread |-> IF fromFile /\ line # EOS THEN r.nread + 1 ELSE r.nread]]

GetNextNotEmptyLine(r, chunk) == NextLine(r, FALSE, chunk)
PeekNextNotEmptyLine(r, chunk) == NextLine(r, TRUE, chunk)


\* LineReader.isEndOfFile
IsEndOfFile(r, chunk) ==
  LET p == PeekNextNotEmptyLine(r, chunk)
  IN [result |-> p.result = EOS, line |-> p.result, read |-> p.read, lr |-> p.lr]

\* LineReader.nextLineMatches
NextLineMatches(r, Regex(_, _), chunk) ==
  LET p == PeekNextNotEmptyLine(r, chunk)
  IN [result |-> Regex(p.result, FALSE), line |-> p.result, read |-> p.read, lr |-> p.lr]

\* LineReader.nextLineMatchesIgnoreCase
NextLineMatchesIgnoreCase(r, Regex(_, _), chunk) ==
  LET p == PeekNextNotEmptyLine(r, chunk)
  IN [result |-> Regex(p.result, TRUE), line |-> p.result, read |-> p.read, lr |-> p.lr]

(***************************************************************************)
(* State.                                                                  *)
(*   fileType, lr, pc, timestep, zone, i, polyData, files, printed are the *)
(*   script's own state; pc is the position in the script.                 *)
(*   written, nsteps, badLine, eosRows record the run so far;              *)
(*   hist, returned, lastPeek, peeked, answer record the calls made in the *)
(*   LineReader harness.                                                   *)
(***************************************************************************)
VARIABLES fileType, lr, pc, timestep, zone, i, polyData, files, printed,
          written, nsteps, badLine, eosRows,
          hist, returned, lastPeek, peeked, answer

vars == <<fileType, lr, pc, timestep, zone, i, polyData, files, printed,
          written, nsteps, badLine, eosRows,
          hist, returned, lastPeek, peeked, answer>>

scriptVars == <<fileType, pc, timestep, zone, i, polyData, files, printed,
                written, nsteps, badLine, eosRows>>
harnessVars == <<hist, returned, lastPeek, peeked, answer>>

\* Timestep.__init__
NewTimestep == [title |-> <<>>, time |-> -1, variables |-> <<>>, zones |-> <<>>]

\* Zone.__init__
NewZone ==
  [title |-> <<>>, solutionTime |-> -1, rowCount |-> -1, columnCount |-> -1,
   table |-> <<>>]

\* VTKPolyData.__init__
NewVTKPolyData ==
  [title |-> <<>>, time |-> -1, points |-> <<>>, cells |-> <<>>, fields |-> <<>>,
   keys |-> <<>>]

InitCommon ==
  /\ lr = NewLineReader
  /\ timestep = NewTimestep
  /\ zone = NewZone
  /\ i = 0
  /\ polyData = NewVTKPolyData
  /\ files = <<>>
  /\ printed = <<>>
  /\ written = <<>>
  /\ nsteps = 0
  /\ badLine = FALSE
  /\ eosRows = 0
  /\ hist = <<>>
  /\ returned = <<>>
  /\ lastPeek = EOS
  /\ peeked = FALSE
  /\ answer = FALSE

(***************************************************************************)
(* The LineReader harness: any sequence of calls of the reader's methods   *)
(* over any file of at most ReaderMaxLines non-blank lines.                *)
(***************************************************************************)
InitReader == InitCommon /\ fileType = DAMAGE_FILETYPE /\ pc = "reader"

Reveal(fromFile, line) == IF fromFile /\ line # EOS THEN Append(hist, line) ELSE hist

CallGetNextNotEmptyLine ==
  /\ Len(returned) < MaxCalls
  /\ \E chunk \in Chunks(lr, ReaderAlphabet, ReaderMaxLines, 0..MaxBlank) :
       LET res == GetNextNotEmptyLine(lr, chunk)
       IN /\ lr' = res.lr
          /\ hist' = Reveal(res.read, res.result)
          /\ returned' = Append(returned, res.result)
          /\ peeked' = FALSE
          /\ UNCHANGED <<lastPeek, answer>>
  /\ UNCHANGED scriptVars

CallPeekNextNotEmptyLine ==
  /\ \E chunk \in Chunks(lr, ReaderAlphabet, ReaderMaxLines, 0..MaxBlank) :
       LET res == PeekNextNotEmptyLine(lr, chunk)
       IN /\ lr' = res.lr
          /\ hist' = Reveal(res.read, res.result)
          /\ lastPeek' = res.result
          /\ peeked' = TRUE
          /\ UNCHANGED <<returned, answer>>
  /\ UNCHANGED scriptVars

CallIsEndOfFile ==
  /\ \E chunk \in Chunks(lr, ReaderAlphabet, ReaderMaxLines, 0..MaxBlank) :
       LET res == IsEndOfFile(lr, chunk)
       IN /\ lr' = res.lr
          /\ hist' = Reveal(res.read, res.line)
          /\ lastPeek' = res.line
          /\ peeked' = TRUE
          /\ answer' = res.result
          /\ UNCHANGED returned
  /\ UNCHANGED scriptVars

CallNextLineMatches ==
  /\ \E chunk \in Chunks(lr, ReaderAlphabet, ReaderMaxLines, 0..MaxBlank) :
       LET res == NextLineMatches(lr, TIMESTEP_LAST_LINE_REGEXP, chunk)
       IN /\ lr' = res.lr
          /\ hist' = Reveal(res.read, res.line)
          /\ lastPeek' = res.line
          /\ peeked' = TRUE
          /\ answer' = res.result
          /\ UNCHANGED returned
  /\ UNCHANGED scriptVars

CallNextLineMatchesIgnoreCase ==
  /\ \E chunk \in Chunks(lr, ReaderAlphabet, ReaderMaxLines, 0..MaxBlank) :
       LET res == NextLineMatchesIgnoreCase(lr, TIMESTEP_LAST_LINE_REGEXP, chunk)
       IN /\ lr' = res.lr
          /\ hist' = Reveal(res.read, res.line)
          /\ lastPeek' = res.line
          /\ peeked' = TRUE
          /\ answer' = res.result
          /\ UNCHANGED returned
  /\ UNCHANGED scriptVars

NextReader ==
  \/ CallGetNextNotEmptyLine
  \/ CallPeekNextNotEmptyLine
  \/ CallIsEndOfFile
  \/ CallNextLineMatches
  \/ CallNextLineMatchesIgnoreCase

SpecReader == InitReader /\ [][NextReader]_vars


(***************************************************************************)
(* Zone.                                                                   *)
(***************************************************************************)
\* re.split(r' +', currentLine.strip()): the tokens of a data line; '' gives
\* one empty token; any other line starts with a word that is no number.
Numbers(l) ==
  IF l.kind = "data" THEN l.toks
  ELSE IF l = EOS THEN <<"">>
  ELSE <<l.kind>>

\* float(token) succeeds
ParsesAsFloat(t) == t \in {"0.0", "0", "1.0", "1.5", "2.5"}

\* float(token), in tenths
Float(t) ==
  CASE t = "0.0" -> 0
    [] t = "0" -> 0
    [] t = "1.0" -> 10
    [] t = "1.5" -> 15
    [] t = "2.5" -> 25

\* the index in numbers[...] for column j and variable k (both from 0)
TokenIndex(j, k, V) == j + k

\* the last k with variables[k] = name: a later assignment to the same key
\* of the element's dict replaces the earlier one
LastIndexOf(variables, name) ==
  CHOOSE k \in 1..Len(variables) :
    /\ variables[k] = name
    /\ \A m \in (k + 1)..Len(variables) : variables[m] # name

\* no float(numbers[j + k]) of the row raises (IndexError or ValueError)
RowParses(J, variables, numbers) ==
  \A j \in 0..(J - 1), k \in 0..(Len(variables) - 1) :
    /\ TokenIndex(j, k, Len(variables)) + 1 <= Len(numbers)
    /\ ParsesAsFloat(numbers[TokenIndex(j, k, Len(variables)) + 1])

\* the row built by the loops over j and k
Row(J, variables, numbers) ==
  IF J <= 0 THEN <<>>
  ELSE [j \in 1..J |->
          [name \in Range(variables) |->
             Float(numbers[TokenIndex(j - 1, LastIndexOf(variables, name) - 1,
                                      Len(variables)) + 1])]]

\* Zone.__readFullHeader
ReadFullHeader(z, l) ==
  [z EXCEPT !.title = l.text, !.solutionTime = l.st,
            !.rowCount = l.I, !.columnCount = l.J]

\* Zone.__readPartialHeader: group(1) of the partial pattern keeps the quotes
ReadPartialHeader(z, l) ==
  [z EXCEPT !.title = <<"\"">> \o l.text \o <<"\"">>, !.solutionTime = l.st,
            !.rowCount = -1, !.columnCount = 1]

\* if matchFull: ... elif matchPartial: ...   (no else)
ReadHeader(z, l) ==
  IF ZONE_FULL_HEADER_REGEXP(l, FALSE) THEN ReadFullHeader(z, l)
  ELSE IF ZONE_PARTIAL_HEADER_REGEXP(l, FALSE) THEN ReadPartialHeader(z, l)
  ELSE z

NextRowAvailable_NoNumberCheck(z, n, r, chunk) ==
  IF z.rowCount = -1
  THEN LET m1 == NextLineMatches(r, ZONE_REGEXP, chunk)
           m2 == NextLineMatchesIgnoreCase(m1.lr, TIMESTEP_LAST_LINE_REGEXP, chunk)
           m3 == NextLineMatches(m2.lr, END_OF_FILE_REGEXP, chunk)
       IN IF m1.result THEN [result |-> FALSE, lr |-> m1.lr]
          ELSE IF m2.result THEN [result |-> FALSE, lr |-> m2.lr]
          ELSE IF m3.result THEN [result |-> FALSE, lr |-> m3.lr]
          ELSE [result |-> TRUE, lr |-> m3.lr]
  ELSE [result |-> n < z.rowCount, lr |-> r]

\* Zone.__nextRowAvailable, with the reader after its calls
NextRowAvailable(z, n, r, chunk) ==
  IF z.rowCount = -1
  THEN LET m1 == NextLineMatches(r, ZONE_REGEXP, chunk)
           m2 == NextLineMatchesIgnoreCase(m1.lr, TIMESTEP_LAST_LINE_REGEXP, chunk)
           m3 == NextLineMatches(m2.lr, END_OF_FILE_REGEXP, chunk)
           m4 == NextLineMatches(m3.lr, CRACK_INITIAL_NUMBER_REGEXP, chunk)
       IN IF m1.result THEN [result |-> FALSE, lr |-> m1.lr]
          ELSE IF m2.result THEN [result |-> FALSE, lr |-> m2.lr]
          ELSE IF m3.result THEN [result |-> FALSE, lr |-> m3.lr]
          ELSE IF m4.result THEN [result |-> FALSE, lr |-> m4.lr]
          ELSE [result |-> TRUE, lr |-> m4.lr]
  ELSE [result |-> n < z.rowCount, lr |-> r]

(***************************************************************************)
(* Timestep.                                                               *)
(***************************************************************************)
\* a line of output: its fixed text and the values put into it
Message(text) == [text |-> text, zone |-> <<>>, solutionTime |-> 0, expected |-> 0]
ZoneMessage(z, time) ==
  [text |-> "zone ... has solutionTime ... instead of ...!",
   zone |-> z.title, solutionTime |-> z.solutionTime, expected |-> time]

\* Timestep.checkZonesSolutionTimes: the lines it prints, one per zone whose
\* solutionTime differs; its result is that there is none
RECURSIVE CheckZones(_, _)
CheckZones(ts, z) ==
  IF z > Len(ts.zones) THEN <<>>
  ELSE (IF ts.zones[z].solutionTime # ts.time
        THEN <<ZoneMessage(ts.zones[z], ts.time)>>
        ELSE <<>>) \o CheckZones(ts, z + 1)

CheckZonesSolutionTimes_FirstOnly(ts) ==
  LET bad == {z \in 1..Len(ts.zones) : ts.zones[z].solutionTime # ts.time}
      first == CHOOSE z \in bad : \A y \in bad : z <= y
  IN IF bad = {} THEN <<>> ELSE <<ZoneMessage(ts.zones[first], ts.time)>>

CheckZonesSolutionTimes(ts) == CheckZones(ts, 1)

RECURSIVE Flatten(_)
Flatten(ss) == IF ss = <<>> THEN <<>> ELSE Head(ss) \o Flatten(Tail(ss))

\* for row in zone.getRows(): for element in row
ZoneElements(z) == Flatten(z.table)

\* point = (element['X'], element['Y'], 0.0)
PointOf(element) == <<element["X"], element["Y"], 0>>

\* element['X'] or element['Y'] raises KeyError
KeyErrorInConvert(ts) ==
  /\ \E z \in 1..Len(ts.zones) : ZoneElements(ts.zones[z]) # <<>>
  /\ ~({"X", "Y"} \subseteq Range(ts.variables))

\* tempCells: per zone, the points of its elements in traversal order
TempCells(ts) ==
  [z \in 1..Len(ts.zones) |->
     [n \in 1..Len(ZoneElements(ts.zones[z])) |->
        PointOf(ZoneElements(ts.zones[z])[n])]]

\* tempPoints: the set of the points
TempPoints(ts) == Range(Flatten(TempCells(ts)))

\* for point in tempPoints: points.append(point) -- a set is iterated in an
\* order the language leaves open: every enumeration of the set
Orders(S) ==
  {s \in [1..Cardinality(S) -> S] :
     \A a, b \in 1..Cardinality(S) : a # b => s[a] # s[b]}

\* the keys of fields, in the order of the variables
FieldKeys(ts) == SelectSeq(ts.variables, LAMBDA v : v # "X" /\ v # "Y")

Fields_FirstWriteWins(ts) ==
  LET all == Flatten([z \in 1..Len(ts.zones) |-> ZoneElements(ts.zones[z])])
      first(p) == CHOOSE n \in 1..Len(all) :
                    /\ PointOf(all[n]) = p
                    /\ \A m \in 1..(n - 1) : PointOf(all[m]) # p
  IN [key \in Range(FieldKeys(ts)) |->
        [p \in TempPoints(ts) |-> all[first(p)][key]]]

\* fields[key][point] = element[key], in traversal order: the last one stays
Fields(ts) ==
  LET all == Flatten([z \in 1..Len(ts.zones) |-> ZoneElements(ts.zones[z])])
      last(p) == CHOOSE n \in 1..Len(all) :
                   /\ PointOf(all[n]) = p
                   /\ \A m \in (n + 1)..Len(all) : PointOf(all[m]) # p
  IN [key \in Range(FieldKeys(ts)) |->
        [p \in TempPoints(ts) |-> all[last(p)][key]]]

Index_Position(points, p) ==
  CHOOSE n \in 1..Len(points) : points[n] = p /\ \A m \in 1..(n - 1) : points[m] # p

\* points.index(point)
Index(points, p) ==
  (CHOOSE n \in 1..Len(points) : points[n] = p /\ \A m \in 1..(n - 1) : points[m] # p) - 1

\* cells: every point of tempCells replaced by its index in points
Cells(points, tempCells) ==
  [z \in 1..Len(tempCells) |->
     [n \in 1..Len(tempCells[z]) |-> Index(points, tempCells[z][n])]]

\* Timestep.convertToVTKPolyData, for one iteration order of tempPoints
ConvertToVTKPolyData(ts, points) ==
  [title |-> ts.title, time |-> ts.time, points |-> points,
   cells |-> Cells(points, TempCells(ts)),
   fields |-> Fields(ts), keys |-> FieldKeys(ts)]


(***************************************************************************)
(* VTKPolyData.writeToFile.                                                *)
(***************************************************************************)
\* title.replace(" ", "")
RemoveSpaces(t) == SelectSeq(t, LAMBDA c : c # " ")

DigitChars == <<"0", "1", "2", "3", "4", "5", "6", "7", "8", "9">>

RECURSIVE Digits(_)
Digits(n) ==
  IF n < 10 THEN <<DigitChars[n + 1]>>
  ELSE Digits(n \div 10) \o <<DigitChars[(n % 10) + 1]>>

\* str(time)
Str(n) == IF n < 0 THEN <<"-">> \o Digits(-n) ELSE Digits(n)

\* str.zfill(width): zeros go after a leading sign
ZFill(t, width) ==
  LET zeros == [m \in 1..(width - Len(t)) |-> "0"]
  IN IF Len(t) >= width THEN t
     ELSE IF Head(t) = "-" THEN <<"-">> \o zeros \o Tail(t)
     ELSE zeros \o t

GetFileName_KeepSpaces(originalFileName, pd) ==
  <<originalFileName, pd.title, ZFill(Str(pd.time), 6)>>

\* VTKPolyData.__getFileName: the parts between the fixed text of the path
GetFileName(originalFileName, pd) ==
  <<originalFileName, RemoveSpaces(pd.title), ZFill(Str(pd.time), 6)>>

\* VTKPolyData.__getCellType
GetCellType(cellSize) == IF cellSize = 2 THEN "LINES" ELSE "POLYGONS"

\* VTKPolyData.__getTotalCellsSize
RECURSIVE GetTotalCellsSize(_)
GetTotalCellsSize(cells) ==
  IF cells = <<>> THEN 0 ELSE 1 + Len(Head(cells)) + GetTotalCellsSize(Tail(cells))

NoCells == [type |-> "none", count |-> 0, total |-> 0, lines |-> <<>>]

\* len(self.cells[0]) raises IndexError
IndexErrorInWrite(pd, type) == type # VON_MISES_FILETYPE /\ pd.cells = <<>>

\* field[point] raises KeyError
KeyErrorInWrite(pd) ==
  \E k \in 1..Len(pd.keys), n \in 1..Len(pd.points) :
    pd.points[n] \notin DOMAIN pd.fields[pd.keys[k]]

\* what writeToFile leaves in the file: the header and the points, then the
\* cells unless the file type is VON MISES, then the point data; an exception
\* leaves what was written before it
FileContent(pd, type) ==
  [header |-> RemoveSpaces(pd.title),
   points |-> pd.points,
   cells |-> IF type = VON_MISES_FILETYPE \/ pd.cells = <<>> THEN NoCells
             ELSE [type |-> GetCellType(Len(pd.cells[1])), count |-> Len(pd.cells),
                   total |-> GetTotalCellsSize(pd.cells), lines |-> pd.cells],
   pointData |-> IF IndexErrorInWrite(pd, type) \/ KeyErrorInWrite(pd) THEN <<>>
                 ELSE [k \in 1..Len(pd.keys) |->
                         [name |-> pd.keys[k],
                          values |-> [n \in 1..Len(pd.points) |->
                                        pd.fields[pd.keys[k]][pd.points[n]]]]],
   complete |-> ~(IndexErrorInWrite(pd, type) \/ KeyErrorInWrite(pd))]

originalFileName == "input"

(***************************************************************************)
(* The converter script: one action per step of the main loop and of the   *)
(* readFromFile methods it runs.  Within one action the reader reads the   *)
(* file at most once (a peek pushes the line back for the calls after it), *)
(* so one chunk of raw lines serves all the calls of the action.           *)
(***************************************************************************)
Init ==
  /\ InitCommon
  /\ fileType \in {CRACK_FILETYPE, DAMAGE_FILETYPE, VON_MISES_FILETYPE}
  /\ pc = "loop"

\* the files of the main loop: the n-th non-blank line (n from 0) has
\* n % (MaxBlank + 1) blank lines in front of it
FileChunks == Chunks(lr, Alphabet, MaxLines, {lr.nread % (MaxBlank + 1)})

\* An exception nobody catches ends the script: its objects are gone, the
\* files written so far stay.  bad: the exception came from a line that did
\* not match the pattern required of it.
Crash(bad) ==
  /\ pc' = "fatal"
  /\ lr' = NewLineReader
  /\ timestep' = NewTimestep
  /\ zone' = NewZone
  /\ i' = 0
  /\ polyData' = NewVTKPolyData
  /\ badLine' = (badLine \/ bad)
  /\ UNCHANGED <<fileType, printed, nsteps, eosRows>>

\* while not lineReader.nextLineMatches(END_OF_FILE_REGEXP) and not
\* lineReader.isEndOfFile(): timestep = Timestep() ... ; after the loop
\* file.close() and, success being True, print('Conversion done! Exiting...')
LoopHead ==
  /\ pc = "loop"
  /\ \E chunk \in FileChunks :
       LET m == NextLineMatches(lr, END_OF_FILE_REGEXP, chunk)
           e == IsEndOfFile(m.lr, chunk)
           again == ~m.result /\ ~e.result
       IN /\ lr' = IF m.result THEN m.lr ELSE e.lr
          /\ pc' = IF again THEN "skip" ELSE "done"
          /\ timestep' = IF again THEN NewTimestep ELSE timestep
          /\ nsteps' = IF again THEN nsteps + 1 ELSE nsteps
          /\ printed' = IF again THEN printed
                        ELSE Append(printed, Message("Conversion done! Exiting..."))
  /\ UNCHANGED <<fileType, zone, i, polyData, files, written, badLine, eosRows>>
  /\ UNCHANGED harnessVars

\* Timestep.readFromFile: if fileType == CRACK_FILETYPE:
\* self.__skipNumberBeforeTitle(lineReader)
SkipNumberBeforeTitle ==
  /\ pc = "skip"
  /\ \E chunk \in FileChunks :
       LET m == NextLineMatches(lr, CRACK_INITIAL_NUMBER_REGEXP, chunk)
           g == GetNextNotEmptyLine(m.lr, chunk)
       IN lr' = IF fileType # CRACK_FILETYPE THEN lr
                ELSE IF m.result THEN g.lr ELSE m.lr
  /\ pc' = "title"
  /\ UNCHANGED <<fileType, timestep, zone, i, polyData, files, printed, written,
                 nsteps, badLine, eosRows>>
  /\ UNCHANGED harnessVars

\* match = re.search(TITLE_REGEXP, ...); self.setTitle(match.group(1))
\* (match is None: AttributeError)
ReadTitle ==
  /\ pc = "title"
  /\ \E chunk \in FileChunks :
       LET g == GetNextNotEmptyLine(lr, chunk)
       IN IF TITLE_REGEXP(g.result, FALSE)
          THEN /\ lr' = g.lr
               /\ pc' = "variables"
               /\ timestep' = [timestep EXCEPT !.title = g.result.text]
               /\ UNCHANGED <<fileType, zone, i, polyData, printed, nsteps,
                              badLine, eosRows>>
          ELSE Crash(TRUE)
  /\ UNCHANGED <<files, written>>
  /\ UNCHANGED harnessVars

\* match = re.search(VARIABLES_REGEXP, ...); ... self.addVariable(...)
ReadVariables ==
  /\ pc = "variables"
  /\ \E chunk \in FileChunks :
       LET g == GetNextNotEmptyLine(lr, chunk)
       IN IF VARIABLES_REGEXP(g.result, FALSE)
          THEN /\ lr' = g.lr
               /\ pc' = "zones"
               /\ timestep' = [timestep EXCEPT !.variables = g.result.names]
               /\ UNCHANGED <<fileType, zone, i, polyData, printed, nsteps,
                              badLine, eosRows>>
          ELSE Crash(TRUE)
  /\ UNCHANGED <<files, written>>
  /\ UNCHANGED harnessVars

\* while lineReader.nextLineMatches(ZONE_REGEXP): zone = Zone();
\* zone.readFromFile: the header is read and matched; i = 0
ReadZoneHeader ==
  /\ pc = "zones"
  /\ \E chunk \in FileChunks :
       LET m == NextLineMatches(lr, ZONE_REGEXP, chunk)
           g == GetNextNotEmptyLine(m.lr, chunk)
       IN /\ m.result
          /\ lr' = g.lr
          /\ zone' = ReadHeader(NewZone, g.result)
          /\ badLine' = (badLine \/ ~(ZONE_FULL_HEADER_REGEXP(g.result, FALSE)
                                       \/ ZONE_PARTIAL_HEADER_REGEXP(g.result, FALSE)))
  /\ i' = 0
  /\ pc' = "rows"
  /\ UNCHANGED <<fileType, timestep, polyData, files, printed, written, nsteps, eosRows>>
  /\ UNCHANGED harnessVars

\* the body of  while self.__nextRowAvailable(i, lineReader):  one row is
\* read, built and added (a float() or numbers[...] that raises ends the run)
ReadRow ==
  /\ pc = "rows"
  /\ \E chunk \in FileChunks :
       LET a == NextRowAvailable(zone, i, lr, chunk)
           g == GetNextNotEmptyLine(a.lr, chunk)
           numbers == Numbers(g.result)
       IN /\ a.result
          /\ IF RowParses(zone.columnCount, timestep.variables, numbers)
             THEN /\ g.result = EOS => eosRows < MaxEosRows
                  /\ lr' = g.lr
                  /\ pc' = "rows"
                  /\ zone' = [zone EXCEPT
                                !.table = Append(@, Row(zone.columnCount,
                                                        timestep.variables, numbers))]
                  /\ i' = i + 1
                  /\ eosRows' = IF g.result = EOS THEN eosRows + 1 ELSE eosRows
                  /\ UNCHANGED <<fileType, timestep, polyData, printed, nsteps, badLine>>
             ELSE Crash(FALSE)
  /\ UNCHANGED <<files, written>>
  /\ UNCHANGED harnessVars

\* __nextRowAvailable returns False: readFromFile returns, self.addZone(zone)
EndZone ==
  /\ pc = "rows"
  /\ \E chunk \in FileChunks :
       LET a == NextRowAvailable(zone, i, lr, chunk)
       IN /\ ~a.result
          /\ lr' = a.lr
  /\ timestep' = [timestep EXCEPT !.zones = Append(@, zone)]
  /\ pc' = "zones"
  /\ UNCHANGED <<fileType, zone, i, polyData, files, printed, written, nsteps,
                 badLine, eosRows>>
  /\ UNCHANGED harnessVars

\* no further zone: CRACK takes the time of zones[0] (IndexError without a
\* zone), the other types read the timestep's last line
SetTime ==
  /\ pc = "zones"
  /\ \E chunk \in FileChunks :
       LET m == NextLineMatches(lr, ZONE_REGEXP, chunk)
           g == GetNextNotEmptyLine(m.lr, chunk)
       IN /\ ~m.result
          /\ IF fileType = CRACK_FILETYPE
             THEN IF timestep.zones = <<>> THEN Crash(FALSE)
                  ELSE /\ lr' = m.lr
                       /\ pc' = "check"
                       /\ timestep' = [timestep EXCEPT
                                         !.time = timestep.zones[1].solutionTime]
                       /\ UNCHANGED <<fileType, zone, i, polyData, printed, nsteps,
                                      badLine, eosRows>>
             ELSE IF TIMESTEP_LAST_LINE_REGEXP(g.result, TRUE)
                  THEN /\ lr' = g.lr
                       /\ pc' = "check"
                       /\ timestep' = [timestep EXCEPT !.time = g.result.iter]
                       /\ UNCHANGED <<fileType, zone, i, polyData, printed, nsteps,
                                      badLine, eosRows>>
                  ELSE Crash(TRUE)
  /\ UNCHANGED <<files, written>>
  /\ UNCHANGED harnessVars

\* if timestep.checkZonesSolutionTimes(): ... else: print('ERROR ...');
\* success = False; break
Check ==
  /\ pc = "check"
  /\ LET lines == CheckZonesSolutionTimes(timestep)
     IN IF lines = <<>>
        THEN /\ pc' = "convert"
             /\ UNCHANGED printed
        ELSE /\ pc' = "halt"
             /\ printed' = printed \o lines
                             \o <<Message("ERROR - there is a ZONE with wrong SOLUTIONTIME")>>
  /\ UNCHANGED <<fileType, lr, timestep, zone, i, polyData, files, written, nsteps,
                 badLine, eosRows>>
  /\ UNCHANGED harnessVars

\* polyData = timestep.convertToVTKPolyData()
Convert ==
  /\ pc = "convert"
  /\ IF KeyErrorInConvert(timestep)
     THEN Crash(FALSE)
     ELSE /\ pc' = "write"
          /\ \E points \in Orders(TempPoints(timestep)) :
               polyData' = ConvertToVTKPolyData(timestep, points)
          /\ UNCHANGED <<fileType, lr, timestep, zone, i, printed, nsteps,
                         badLine, eosRows>>
  /\ UNCHANGED <<files, written>>
  /\ UNCHANGED harnessVars

\* polyData.writeToFile(originalFileName, fileType): open(..., 'w') makes the
\* file or empties it, then the parts are written
WriteToFile ==
  /\ pc = "write"
  /\ LET name == GetFileName(originalFileName, polyData)
         content == FileContent(polyData, fileType)
     IN /\ files' = (name :> content) @@ files
        /\ written' = Append(written, [title |-> polyData.title, time |-> polyData.time,
                                       content |-> content])
        /\ IF content.complete
           THEN /\ pc' = "loop"
                /\ UNCHANGED <<fileType, lr, timestep, zone, i, polyData, printed,
                               nsteps, badLine, eosRows>>
           ELSE Crash(FALSE)
  /\ UNCHANGED harnessVars

Next ==
  \/ LoopHead
  \/ SkipNumberBeforeTitle
  \/ ReadTitle
  \/ ReadVariables
  \/ ReadZoneHeader
  \/ ReadRow
  \/ EndZone
  \/ SetTime
  \/ Check
  \/ Convert
  \/ WriteToFile

Spec == Init /\ [][Next]_vars


(***************************************************************************)
(* Properties.                                                             *)
(***************************************************************************)
\* the elements of a timestep in zone -> row -> column order
ElementsOf(ts) == Flatten([z \in 1..Len(ts.zones) |-> Flatten(ts.zones[z].table)])

Coordinate(e) == <<e["X"], e["Y"], 0>>

\* the distinct members of a sequence, in the order of their first occurrence
RECURSIVE FirstSeen(_)
FirstSeen(sq) ==
  IF sq = <<>> THEN <<>>
  ELSE LET before == FirstSeen(SubSeq(sq, 1, Len(sq) - 1))
       IN IF Last(sq) \in Range(before) THEN before ELSE Append(before, Last(sq))

\* C1: (the claim as stated) the row just built from a data line of J * V
\* tokens gives the element of column j, for the k-th variable, the number at
\* token j * V + k of the line.
C1_TokenAssignment ==
  LET J == zone.columnCount
      V == Len(timestep.variables)
      toks == lr.latestLine.toks
  IN (/\ pc = "rows"
      /\ zone.table # <<>>
      /\ ~lr.pushedBack
      /\ lr.latestLine.kind = "data"
      /\ Len(toks) = J * V)
     => \A j \in 0..(J - 1), k \in 0..(V - 1) :
          Last(zone.table)[j + 1][timestep.variables[k + 1]] = Float(toks[j * V + k + 1])

\* C2: (the claim as stated) the points of a converted timestep are its
\* distinct points in the order in which the zone -> row -> column traversal
\* first meets them.
C2_FirstSeenOrder ==
  pc = "write" =>
    polyData.points =
      FirstSeen([n \in 1..Len(ElementsOf(timestep)) |-> Coordinate(ElementsOf(timestep)[n])])

\* C3: the points of a converted timestep hold no point twice, hold the
\* coordinate of every element and nothing else, and cells[z][n] is the index
\* in points of the coordinate of the n-th element of zone z.
C3_DedupAndConnectivity ==
  pc = "write" =>
    LET P == polyData.points
        elems(z) == Flatten(timestep.zones[z].table)
    IN /\ \A a, b \in 1..Len(P) : a # b => P[a] # P[b]
       /\ \A a \in 1..Len(P) :
            \E n \in 1..Len(ElementsOf(timestep)) : P[a] = Coordinate(ElementsOf(timestep)[n])
       /\ Len(polyData.cells) = Len(timestep.zones)
       /\ \A z \in 1..Len(timestep.zones) :
            /\ Len(polyData.cells[z]) = Len(elems(z))
            /\ \A n \in 1..Len(elems(z)) :
                 /\ polyData.cells[z][n] \in 0..(Len(P) - 1)
                 /\ P[polyData.cells[z][n] + 1] = Coordinate(elems(z)[n])

C3_Witness ==
  /\ pc = "write"
  /\ Len(polyData.points) >= 2
  /\ \E z1, z2 \in 1..Len(polyData.cells) :
       \E n1 \in 1..Len(polyData.cells[z1]), n2 \in 1..Len(polyData.cells[z2]) :
         /\ <<z1, n1>> # <<z2, n2>>
         /\ polyData.cells[z1][n1] = polyData.cells[z2][n2]

\* C4: (the claim as stated) once a line read where a title, a variables
\* line, a zone header or a timestep's last line is required does not match,
\* the run has ended with an error.
C4_MalformedLineIsFatal == badLine => pc = "fatal"

\* what getNextNotEmptyLine has returned, against the lines of the file
C5_ReturnedInOrder ==
  LET n == Cardinality({k \in 1..Len(returned) : returned[k] # EOS})
  IN /\ n <= Len(hist)
     /\ \A k \in 1..Len(returned) :
          IF k <= n THEN returned[k] = hist[k] /\ ~IsBlank(returned[k])
          ELSE returned[k] = EOS
     /\ n < Len(returned) => lr.eos /\ n = Len(hist)
     /\ Len(hist) - n \in {0, 1}
     /\ Len(hist) - n = 1 => lr.pushedBack /\ lr.latestLine = Last(hist)

\* C5: the lines getNextNotEmptyLine returns are the non-blank lines of the
\* file in order, each once, and then only the empty line, returned only when
\* the file is at its end; the reader is at most one line ahead of what it
\* has returned, and that line is the one pushed back; calls that peek,
\* one after another, see the same line, and the next getNextNotEmptyLine
\* returns that line.
C5_SingleSlotLookahead ==
  /\ []C5_ReturnedInOrder
  /\ [][peeked =>
          IF peeked' THEN lastPeek' = lastPeek
          ELSE /\ Len(returned') = Len(returned) + 1
               /\ Last(returned') = lastPeek]_vars

C5_Witness ==
  /\ peeked
  /\ lastPeek # EOS
  /\ Len(returned) >= 1
  /\ Len(hist) = Len(returned) + 1

\* C6: when the timestep just read has zones whose solutionTime differs from
\* its time, checkZonesSolutionTimes prints one line for each of them, in order, and for no
\* other zone, then the error line; nothing is written, the run ends there
\* without the completion message, and no step follows.  Without such a zone
\* the timestep goes on to be converted.
C6_MismatchHalts ==
  [][/\ pc = "check" =>
          LET bad == {z \in 1..Len(timestep.zones) :
                        timestep.zones[z].solutionTime # timestep.time}
              nth(r) == CHOOSE z \in bad : Cardinality({y \in bad : y < z}) = r - 1
          IN IF bad = {} THEN pc' = "convert" /\ printed' = printed
             ELSE /\ pc' = "halt"
                  /\ files' = files
                  /\ written' = written
                  /\ Len(printed') = Len(printed) + Cardinality(bad) + 1
                  /\ \A r \in 1..Cardinality(bad) :
                       /\ printed'[Len(printed) + r].zone = timestep.zones[nth(r)].title
                       /\ printed'[Len(printed) + r].solutionTime =
                            timestep.zones[nth(r)].solutionTime
                       /\ printed'[Len(printed) + r].expected = timestep.time
                  /\ \A r \in 1..Len(printed') :
                       printed'[r].text # "Conversion done! Exiting..."
     /\ pc # "halt"]_vars

C6_Witness ==
  /\ pc = "halt"
  /\ \E z \in 1..Len(timestep.zones) : timestep.zones[z].solutionTime = timestep.time
  /\ \E z \in 1..Len(timestep.zones) : timestep.zones[z].solutionTime # timestep.time
  /\ Len(printed) = 2

\* C7: the fields of a converted timestep are its variables other than X and
\* Y; each field has a value for exactly the points of the mesh, and the
\* value is that of the last element, in traversal order, with the point's
\* coordinate.
C7_FieldCompleteness ==
  pc = "write" =>
    LET all == ElementsOf(timestep)
    IN /\ DOMAIN polyData.fields = {v \in Range(timestep.variables) : v \notin {"X", "Y"}}
       /\ \A F \in DOMAIN polyData.fields :
            /\ DOMAIN polyData.fields[F] = Range(polyData.points)
            /\ \A n \in 1..Len(all) :
                 (\A m \in (n + 1)..Len(all) : Coordinate(all[m]) # Coordinate(all[n]))
                   => polyData.fields[F][Coordinate(all[n])] = all[n][F]

C7_Witness ==
  /\ pc = "write"
  /\ \E n, m \in 1..Len(ElementsOf(timestep)) :
       /\ n < m
       /\ Coordinate(ElementsOf(timestep)[n]) = Coordinate(ElementsOf(timestep)[m])
       /\ ElementsOf(timestep)[n]["S"] # ElementsOf(timestep)[m]["S"]

\* C8: (the claim as stated) when the run is done, there are as many files
\* as timesteps were written, and each timestep's content is in a file.
C8_OneFilePerTimestep ==
  pc = "done" =>
    /\ Cardinality(DOMAIN files) = Len(written)
    /\ \A n \in 1..Len(written) : \E f \in DOMAIN files : files[f] = written[n].content

\* C8, amended: there is one file for each pair (title without its spaces,
\* time) among the timesteps written so far, and it holds what the last
\* timestep with that pair wrote.
C8_OneFilePerName ==
  LET Key(w) == <<SelectSeq(w.title, LAMBDA c : c # " "), w.time>>
      keys == {Key(written[n]) : n \in 1..Len(written)}
      lastOf(k) == CHOOSE n \in 1..Len(written) :
                     /\ Key(written[n]) = k
                     /\ \A m \in (n + 1)..Len(written) : Key(written[m]) # k
  IN /\ Cardinality(DOMAIN files) = Cardinality(keys)
     /\ \A k \in keys :
          \E f \in DOMAIN files : f[2] = k[1] /\ files[f] = written[lastOf(k)].content

C8_Witness ==
  /\ pc = "done"
  /\ Len(written) = 2
  /\ written[1].title # written[2].title
  /\ Cardinality(DOMAIN files) = 1

\* a line that ends the rows of a zone of unknown row count
C9_Terminator(l) ==
  \/ l.kind \in {"zoneFull", "zonePartial", "zoneBad", "trailer", "eofMark"}
  \/ l.kind = "data" /\ Len(l.toks) = 1

\* C9: in a zone of unknown row count the row loop ends only in front of a
\* line that is a zone line, a timestep's last line in any letter case, an
\* end-of-file marker or a lone number, which stays pushed back for the
\* caller, and it reads a row only from a line that is none of these; in a
\* zone of known row count I the loop reads one line of the file per row
\* while it has fewer than I rows and ends, without looking at the next
\* line, with exactly I rows.
C9_RowAvailability ==
  [][pc = "rows" =>
       IF zone.rowCount = -1
       THEN /\ pc' = "zones" =>
                 /\ lr'.pushedBack
                 /\ C9_Terminator(lr'.latestLine)
                 /\ Last(timestep'.zones) = zone
            /\ pc' = "rows" =>
                 /\ ~lr'.pushedBack
                 /\ ~C9_Terminator(lr'.latestLine)
                 /\ Len(zone'.table) = Len(zone.table) + 1
                 /\ lr'.nread <= lr.nread + 1
       ELSE /\ pc' = "zones" =>
                 /\ lr' = lr
                 /\ Len(zone.table) = zone.rowCount
                 /\ Last(timestep'.zones) = zone
            /\ pc' = "rows" =>
                 /\ Len(zone.table) < zone.rowCount
                 /\ Len(zone'.table) = Len(zone.table) + 1
                 /\ ~lr'.pushedBack
                 /\ lr'.nread = lr.nread + 1]_vars

C9_Witness ==
  /\ pc = "zones"
  /\ timestep.zones # <<>>
  /\ Last(timestep.zones).rowCount = -1
  /\ Last(timestep.zones).columnCount = 1
  /\ Len(Last(timestep.zones).table) = 2
  /\ lr.pushedBack
  /\ lr.latestLine.kind = "data"

\* C10: (the claim as stated) the row loop of a zone adds no row once the
\* file is at its end.
C10_RowLoopExitsAtEndOfStream == eosRows = 0

====
